---- MODULE Spec2Model ----
(***************************************************************************)
(* IVT heat pump integration: the OAuth2-aware API client (api.py) and the *)
(* tiered polling coordinator (coordinator.py).                            *)
(*                                                                         *)
(* Every coroutine runs on one asyncio event loop, so a task runs without  *)
(* interruption from one suspension point to the next.  Each action below  *)
(* is one such run: it starts where a task is resumed (or called) and ends *)
(* where it next suspends (token POST in flight, queued on the lock,       *)
(* device request in flight) or returns.                                   *)
(***************************************************************************)
EXTENDS Integers, Sequences, FiniteSets, TLC

\* ---------------------------------------------------------------- bounds
NumWriters == 1        \* entity tasks calling put
NumFast == 1           \* modelled length of POLL_PATHS
NumSlow == 2           \* modelled length of ENERGY_PATHS
MaxTicks == 1          \* the clock advances at most this many steps

\* ------------------------------------------------------ program constants
MarginSeconds == 300        \* timedelta(minutes=5)
DefaultExpiresIn == 3600    \* token_data.get("expires_in", 3600)
Cadence == 5                \* if self._energy_counter >= 5
ClockStep == 60             \* DEFAULT_SCAN_INTERVAL, the step of the clock

None == 0                   \* Python None for a token or an instant
Start == 600                \* the instant the client is constructed

\* The tasks of the event loop that use one IVTApi instance
PollTask == 0                       \* the coordinator's poll loop (get_many)
Reader == 1                         \* a lone caller of get (test_connection, get_value)
Writers == 2..(NumWriters + 1)      \* entities calling put
Tasks == {PollTask, Reader} \cup Writers
NoTask == -1
Writer == 2                         \* the entity that writes while the coordinator polls

POLL_PATHS == [i \in 1..NumFast |-> i]
ENERGY_PATHS == [i \in 1..NumSlow |-> NumFast + i]
Paths == 1..(NumFast + NumSlow)
CallerPaths == {POLL_PATHS[1]}

Range(f) == {f[x] : x \in DOMAIN f}

\* Response bodies and Python values
Absent == [shape |-> "absent"]                      \* None
Scalar(v) == [shape |-> "scalar", value |-> v]      \* {"value": v}
Bodies == {Scalar(1), Scalar(2)}
EmptyDict == <<>>

NoResult == [tag |-> "none"]
Ret(v) == [tag |-> "return", val |-> v]
Raise(e) == [tag |-> "raise", exc |-> e]

\* What the token endpoint and the device can answer
\* (None: the field is missing from the token response)
TokenReplies ==
    {[status |-> 200, access_token |-> 2, refresh_token |-> 2, expires_in |-> 120],
     [status |-> 200, access_token |-> 3, refresh_token |-> None, expires_in |-> None],
     [status |-> 400], [error |-> "ClientError"]}
GetReplies ==
    [status : {200}, body : Bodies]
    \cup {[status |-> 404], [status |-> 500],
          [error |-> "ClientError"], [error |-> "TimeoutError"]}
PutReplies ==
    {[status |-> 200], [status |-> 204], [status |-> 500],
     [error |-> "ClientError"], [error |-> "TimeoutError"]}

IdleTask ==
    [pc |-> "idle", kind |-> "none", path |-> 0, hdr |-> None, sent |-> None,
     log |-> <<>>, result |-> NoResult]
IdleCycle == [phase |-> "idle", i |-> 0, results |-> EmptyDict, data |-> EmptyDict]

\* The entities that show a reading, and the path each of them reads
Entities == {"sensor", "energy", "climate", "water_heater", "number"}
EntityPaths(e) ==
    IF e \in {"climate", "water_heater"}      \* HC_ROOM_TEMP, DHW_ACTUAL_TEMP
    THEN {POLL_PATHS[1]}
    ELSE Paths                                \* self._path
NoShown == [entity |-> "none", path |-> 0, value |-> {}, available |-> FALSE]

\* The accessors of the coordinator, the keys of an emon-style values list, and
\* a path that is not polled
Accessors == {"get_value", "get_entry", "get_values_list", "get_emon_value"}
Keys == {"ch", "dhw", "total"}
UnknownPath == NumFast + NumSlow + 1
NoAnswer == [fn |-> "none", path |-> 0, key |-> "", result |-> NoResult]

\* The manual setup form before it is filled in, and a config entry that has
\* not been created
NoInput == [access_token |-> None, refresh_token |-> None, expires_at |-> None]
NoEntry == <<>>

\* Snapshots are counted up to the one of the first due cycle
Counted == Cadence

VARIABLES
    access_token,        \* IVTApi._access_token
    refresh_token,       \* IVTApi._refresh_token
    token_expires_at,    \* IVTApi._token_expires_at
    on_token_refresh,    \* whether a persistence callback was supplied
    entry,               \* the host's config entry: the persisted credential
    now,                 \* datetime.now(timezone.utc)
    tasks,               \* per task: where its get/put stands
    lock,                \* IVTApi._lock
    data,                \* coordinator.data, the live Snapshot
    energy_counter,      \* IVTDataCoordinator._energy_counter
    cycle,               \* the running _async_update_data, if any
    last_update,         \* how the last finished cycle ended
    shown,               \* the entity state last written to Home Assistant
    answer,              \* the last call of an accessor and how it ended
    snapshots,           \* how many Snapshots have been committed (up to Counted)
    user_input           \* what the user typed into the manual setup form

vars == <<access_token, refresh_token, token_expires_at, on_token_refresh, entry,
          now, tasks, lock, data, energy_counter, cycle, last_update, shown,
          answer, snapshots, user_input>>

\* The state as one record, so that the synchronous part of a coroutine can be
\* written as a function from state to state.
State ==
    [access_token |-> access_token, refresh_token |-> refresh_token,
     token_expires_at |-> token_expires_at, on_token_refresh |-> on_token_refresh,
     entry |-> entry, now |-> now, tasks |-> tasks, lock |-> lock, data |-> data,
     energy_counter |-> energy_counter, cycle |-> cycle, last_update |-> last_update,
     shown |-> shown, answer |-> answer, snapshots |-> snapshots,
     user_input |-> user_input]

Becomes(S) ==
    /\ access_token' = S.access_token
    /\ refresh_token' = S.refresh_token
    /\ token_expires_at' = S.token_expires_at
    /\ on_token_refresh' = S.on_token_refresh
    /\ entry' = S.entry
    /\ now' = S.now
    /\ tasks' = S.tasks
    /\ lock' = S.lock
    /\ data' = S.data
    /\ energy_counter' = S.energy_counter
    /\ cycle' = S.cycle
    /\ last_update' = S.last_update
    /\ shown' = S.shown
    /\ answer' = S.answer
    /\ snapshots' = S.snapshots
    /\ user_input' = S.user_input

Triple(S) == <<S.access_token, S.refresh_token, S.token_expires_at>>

\* ------------------------------------------------------------ coordinator
\* An optional value is a set: {} for None, {v} for v
\* IVTDataCoordinator.get_entry on the Snapshot d
get_entry(d, path) ==
    IF ~(DOMAIN d # {}) THEN Absent
    ELSE IF path \in DOMAIN d THEN d[path] ELSE Absent

\* IVTDataCoordinator.get_value on the Snapshot d
get_value(d, path) ==
    IF ~(DOMAIN d # {}) THEN {}
    ELSE LET e == IF path \in DOMAIN d THEN d[path] ELSE Absent
         IN  IF e # Absent /\ "value" \in DOMAIN e THEN {e.value} ELSE {}

\* IVTDataCoordinator.get_values_list on the Snapshot d: {} for None, else
\* the list in a set
get_values_list(d, path) ==
    LET e == get_entry(d, path) IN
    IF e # Absent /\ DOMAIN e # {"shape"} /\ "values" \in DOMAIN e
    THEN {e.values}
    ELSE {}

\* for item in values: if isinstance(item, dict) and key in item: return item[key]
RECURSIVE FirstWith(_, _)
FirstWith(values, key) ==
    IF values = <<>> THEN {}
    ELSE IF Head(values).dict /\ key \in DOMAIN Head(values)
    THEN {Head(values)[key]}
    ELSE FirstWith(Tail(values), key)

\* Mutant: the list is walked without the test "if values", so that walking
\* None raises TypeError
get_emon_value_unguarded(d, path, key) ==
    LET values == get_values_list(d, path) IN
    IF values = {}
    THEN Raise("TypeError")
    ELSE Ret(FirstWith(CHOOSE v \in values : TRUE, key))

\* IVTDataCoordinator.get_emon_value on the Snapshot d: how the call ends
get_emon_value(d, path, key) ==
    LET values == get_values_list(d, path) IN
    IF values # {} /\ values # {<<>>}
    THEN Ret(FirstWith(CHOOSE v \in values : TRUE, key))
    ELSE Ret({})

\* A call of an accessor on the coordinator in state S: how it ends
Accessor(S, fn, path, key) ==
    CASE fn = "get_value" -> Ret(get_value(S.data, path))
      [] fn = "get_entry" -> Ret(get_entry(S.data, path))
      [] fn = "get_values_list" -> Ret(get_values_list(S.data, path))
      [] OTHER -> get_emon_value(S.data, path, key)

\* ------------------------------------------------------------- entities
\* The readings by which the device says that it has none
Sentinels == {32767, -32768}

\* Python truth of a Snapshot entry: None and {} are false
Falsy(e) == e = Absent \/ DOMAIN e = {"shape"}

\* CoordinatorEntity.available: coordinator.last_update_success
CoordinatorAvailable(S) == S.last_update \in {"none", "success"}

\* IVTSensor.native_value
IVTSensor_native_value(d, path) ==
    LET val == get_value(d, path) IN
    IF val # {} /\ val \subseteq Sentinels THEN {} ELSE val

\* IVTSensor.available
IVTSensor_available(S, path) ==
    LET val == get_value(S.data, path) IN
    IF ~CoordinatorAvailable(S) THEN FALSE
    ELSE IF val = {} THEN FALSE
    ELSE IF val \subseteq Sentinels THEN FALSE
    ELSE TRUE

\* Mutant: the first element of the recording is taken for the last
IVTEnergySensor_native_value_first(d, path) ==
    LET e == get_entry(d, path) IN
    IF Falsy(e) THEN {}
    ELSE LET fallback == IF "value" \in DOMAIN e THEN {e.value} ELSE {} IN
         IF "recording" \in DOMAIN e /\ Len(e.recording) > 0
         THEN LET last == e.recording[1] IN
              IF last.dict
              THEN (IF "y" \in DOMAIN last THEN {last.y} ELSE {})
              ELSE fallback
         ELSE fallback

\* IVTEnergySensor.native_value
IVTEnergySensor_native_value(d, path) ==
    LET e == get_entry(d, path) IN
    IF Falsy(e) THEN {}
    ELSE LET fallback == IF "value" \in DOMAIN e THEN {e.value} ELSE {} IN
         IF "recording" \in DOMAIN e /\ Len(e.recording) > 0
         THEN LET last == e.recording[Len(e.recording)] IN
              IF last.dict
              THEN (IF "y" \in DOMAIN last THEN {last.y} ELSE {})
              ELSE fallback
         ELSE fallback

\* IVTClimate.current_temperature (path is HC_ROOM_TEMP)
IVTClimate_current_temperature(d, path) == get_value(d, path)

\* IVTWaterHeater.current_temperature (path is DHW_ACTUAL_TEMP)
IVTWaterHeater_current_temperature(d, path) == get_value(d, path)

\* IVTNumber.native_value
IVTNumber_native_value(d, path) == get_value(d, path)

\* What Home Assistant reads from entity e when it writes its state
EntityState(S, e, path) ==
    [entity |-> e, path |-> path,
     value |-> CASE e = "sensor" -> IVTSensor_native_value(S.data, path)
                 [] e = "energy" -> IVTEnergySensor_native_value(S.data, path)
                 [] e = "climate" -> IVTClimate_current_temperature(S.data, path)
                 [] e = "water_heater" -> IVTWaterHeater_current_temperature(S.data, path)
                 [] OTHER -> IVTNumber_native_value(S.data, path),
     available |-> IF e \in {"sensor", "energy"}
                   THEN IVTSensor_available(S, path)
                   ELSE CoordinatorAvailable(S)]

\* Python truth of a dict
Truthy(d) == DOMAIN d # {}

\* d[path] = v
DictSet(d, path, v) == (path :> v) @@ d

\* Mutant: only the entries of e that are not None are written
DictUpdateSkipNone(d, e) ==
    [p \in DOMAIN d \cup {q \in DOMAIN e : e[q] # Absent} |->
        IF p \in DOMAIN e /\ e[p] # Absent THEN e[p] ELSE d[p]]

\* d.update(e)
DictUpdate(d, e) == e @@ d

\* Mutant: only entries that are not None are carried forward
CarryForwardTruthy(new, prev) ==
    LET keep == {p \in Range(ENERGY_PATHS) \cap DOMAIN prev : prev[p] # Absent}
    IN  [p \in DOMAIN new \cup keep |-> IF p \in keep THEN prev[p] ELSE new[p]]

\* Mutant: the loop stops after the first path
CarryForwardFirstOnly(new, prev) ==
    LET keep == {ENERGY_PATHS[1]} \cap DOMAIN prev
    IN  [p \in DOMAIN new \cup keep |-> IF p \in keep THEN prev[p] ELSE new[p]]

\* for path in ENERGY_PATHS: if path in self.data: data[path] = self.data[path]
CarryForward(new, prev) ==
    [p \in DOMAIN new \cup (Range(ENERGY_PATHS) \cap DOMAIN prev) |->
        IF p \in Range(ENERGY_PATHS) \cap DOMAIN prev THEN prev[p] ELSE new[p]]

\* Mutant: where the new mapping holds None the old entry is kept
CommitKeepingOld(S, d) ==
    [S EXCEPT !.data = [p \in DOMAIN d |->
                           IF d[p] = Absent /\ p \in DOMAIN S.data THEN S.data[p] ELSE d[p]],
              !.last_update = "success", !.cycle = IdleCycle,
              !.tasks[PollTask] = IdleTask,
              !.snapshots = IF @ < Counted THEN @ + 1 ELSE @]

\* DataUpdateCoordinator: the value _async_update_data returns becomes self.data
Commit(S, d) ==
    [S EXCEPT !.data = d, !.last_update = "success", !.cycle = IdleCycle,
              !.tasks[PollTask] = IdleTask,
              !.snapshots = IF @ < Counted THEN @ + 1 ELSE @]

\* Mutant: a failed cycle publishes an empty Snapshot
UpdateFailedClearing(S, exc) ==
    [S EXCEPT !.data = EmptyDict, !.last_update = "Unexpected error",
              !.cycle = IdleCycle, !.tasks[PollTask] = IdleTask]

\* Mutant: a failed cycle counts as a tick of the cadence
UpdateFailedCounting(S, exc) ==
    [S EXCEPT !.last_update = "Unexpected error",
              !.energy_counter = (@ + 1) % Cadence,
              !.cycle = IdleCycle, !.tasks[PollTask] = IdleTask]

\* except ...: raise UpdateFailed(...): self.data stays as it is
UpdateFailed(S, exc) ==
    [S EXCEPT !.last_update =
                 CASE exc = "IVTAuthError" -> "Authentication error"
                   [] exc = "IVTConnectionError" -> "API error"
                   [] OTHER -> "Unexpected error",
              !.cycle = IdleCycle,
              !.tasks[PollTask] = IdleTask]

\* -------------------------------------------------------------- IVTApi
\* Mutant: the expiry is looked at only when there is a refresh token
IsTokenExpiredOnlyWithRefresh(S) ==
    /\ S.refresh_token # None
    /\ \/ S.token_expires_at = None
       \/ S.now >= S.token_expires_at - MarginSeconds

\* Mutant: no safety margin
IsTokenExpiredNoMargin(S) ==
    IF S.token_expires_at = None
    THEN S.refresh_token # None
    ELSE S.now >= S.token_expires_at

IsTokenExpired(S) ==
    IF S.token_expires_at = None
    THEN S.refresh_token # None
    ELSE S.now >= S.token_expires_at - MarginSeconds

\* get/put of task t is over: what stays of it is its log and its result
Finished(S, t, result) ==
    [S EXCEPT !.tasks[t] = [IdleTask EXCEPT !.log = S.tasks[t].log, !.result = result]]

\* An exception leaves get/put of task t
Throw(S, t, exc) ==
    IF t = PollTask
    THEN UpdateFailed(Finished(S, t, Raise(exc)), exc)
    ELSE Finished(S, t, Raise(exc))

\* {"Authorization": f"Bearer {self._access_token}"}
Headers(S) == S.access_token

\* Inside the lock: self._session.get/put(url, headers=self._headers(), timeout=30)
SendRequest(S, t) ==
    [S EXCEPT !.lock.holder = t,
              !.tasks[t].pc = "http",
              !.tasks[t].hdr = Headers(S),
              !.tasks[t].log = Append(@, IF S.tasks[t].kind = "get" THEN "GET" ELSE "PUT")]

\* Mutant: the request is sent without taking the lock
LockAcquireUnguarded(S, t) == SendRequest(S, t)

\* async with self._lock: taken at once when it is free and nobody is queued
\* for it, else the task is queued (asyncio.Lock is first come, first served)
LockAcquire(S, t) ==
    IF S.lock.holder = NoTask /\ S.lock.waiters = <<>>
    THEN SendRequest(S, t)
    ELSE [S EXCEPT !.lock.waiters = Append(@, t), !.tasks[t].pc = "waitlock"]

\* Mutant: an exit of the block leaves the lock held
LockReleaseNever(S) == S

\* leaving the async with self._lock block
LockRelease(S) == [S EXCEPT !.lock.holder = NoTask]

\* Mutant: without a refresh token the call goes on with the token it has
RequestLenient(S, t, kind, path) ==
    LET S0 == [S EXCEPT !.tasks[t] =
                  [IdleTask EXCEPT !.pc = "run", !.kind = kind, !.path = path]]
    IN  IF IsTokenExpired(S0) /\ S0.refresh_token # None
        THEN [S0 EXCEPT !.tasks[t].pc = "posting",
                        !.tasks[t].sent = S0.refresh_token,
                        !.tasks[t].log = Append(@, "POST")]
        ELSE LockAcquire(S0, t)

\* get()/put() from the call to its first suspension: _ensure_token, then the lock
Request(S, t, kind, path) ==
    LET S0 == [S EXCEPT !.tasks[t] =
                  [IdleTask EXCEPT !.pc = "run", !.kind = kind, !.path = path]]
    IN  IF IsTokenExpired(S0)
        THEN IF S0.refresh_token = None
             THEN Throw(S0, t, "IVTAuthError")
             ELSE [S0 EXCEPT !.tasks[t].pc = "posting",
                             !.tasks[t].sent = S0.refresh_token,
                             !.tasks[t].log = Append(@, "POST")]
        ELSE LockAcquire(S0, t)

\* Mutant: the refresh token is taken from the reply even when it has none
StoreTokensAlwaysRotate(S, reply) ==
    [S EXCEPT !.access_token = reply.access_token,
              !.refresh_token = reply.refresh_token,
              !.token_expires_at =
                  S.now + (IF reply.expires_in # None
                           THEN reply.expires_in ELSE DefaultExpiresIn)]

\* _refresh_access_token after a 200 reply
StoreTokens(S, reply) ==
    [S EXCEPT !.access_token = reply.access_token,
              !.refresh_token =
                  IF reply.refresh_token # None THEN reply.refresh_token ELSE @,
              !.token_expires_at =
                  S.now + (IF reply.expires_in # None
                           THEN reply.expires_in ELSE DefaultExpiresIn)]

\* if self._on_token_refresh: await self._on_token_refresh(...)
Persist(S, t) ==
    IF S.on_token_refresh
    THEN [S EXCEPT !.entry = Triple(S), !.tasks[t].log = Append(@, "PERSIST")]
    ELSE S

\* get()/put() of task t after the token endpoint answered 200: the rest of
\* _refresh_access_token, then on to the lock
\* Mutant: the device request is sent before the tokens are persisted
RefreshedSendFirst(S, t, reply) == Persist(LockAcquire(StoreTokens(S, reply), t), t)

Refreshed(S, t, reply) == LockAcquire(Persist(StoreTokens(S, reply), t), t)

\* Mutant: a failed exchange is logged and the call goes on with the old token
RefreshOutcomeSwallow(S, t, reply) ==
    IF "error" \in DOMAIN reply \/ reply.status # 200
    THEN LockAcquire(S, t)
    ELSE Refreshed(S, t, reply)

\* _refresh_access_token of task t once the token endpoint has answered
RefreshOutcome(S, t, reply) ==
    IF "error" \in DOMAIN reply
    THEN Throw(S, t, "IVTConnectionError")
    ELSE IF reply.status # 200
    THEN Throw(S, t, "IVTAuthError")
    ELSE Refreshed(S, t, reply)

\* The list get_many is walking
CyclePaths(c) == IF c.phase = "fast" THEN POLL_PATHS ELSE ENERGY_PATHS

\* Mutant: each result is also written into the live Snapshot
StoreResultLive(S, v) ==
    [S EXCEPT !.cycle.results = DictSet(@, CyclePaths(S.cycle)[S.cycle.i], v),
              !.data = DictSet(@, CyclePaths(S.cycle)[S.cycle.i], v)]

\* Mutant: a path whose get returned None is left out of the results
StoreResultSkipNone(S, v) ==
    IF v = Absent
    THEN S
    ELSE [S EXCEPT !.cycle.results = DictSet(@, CyclePaths(S.cycle)[S.cycle.i], v)]

\* get_many: results[path] = await self.get(path)
StoreResult(S, v) ==
    [S EXCEPT !.cycle.results = DictSet(@, CyclePaths(S.cycle)[S.cycle.i], v)]

\* Mutant: > for >=
DueLate(counter) == counter > Cadence

\* if self._energy_counter >= 5
Due(counter) == counter >= Cadence

\* _async_update_data once get_many(POLL_PATHS) has returned data
AfterFast(S, fast) ==
    LET counter == S.energy_counter + 1 IN
    IF Due(counter)
    THEN Request([S EXCEPT !.energy_counter = 0,
                           !.cycle = [phase |-> "slow", i |-> 1,
                                      results |-> EmptyDict, data |-> fast]],
                 PollTask, "get", ENERGY_PATHS[1])
    ELSE IF Truthy(S.data)
    THEN Commit([S EXCEPT !.energy_counter = counter], CarryForward(fast, S.data))
    ELSE Commit([S EXCEPT !.energy_counter = counter], fast)

\* get_many after a get has returned v: the next path, or the rest of the cycle
GetManyNext(S, v) ==
    LET S1 == StoreResult(S, v)
        c == S1.cycle
    IN  IF c.i < Len(CyclePaths(c))
        THEN Request([S1 EXCEPT !.cycle.i = c.i + 1],
                     PollTask, "get", CyclePaths(c)[c.i + 1])
        ELSE IF c.phase = "fast"
        THEN AfterFast(S1, c.results)
        ELSE Commit(S1, DictUpdate(c.data, c.results))

\* get/put of task t returns v
Return(S, t, v) ==
    IF t = PollTask
    THEN GetManyNext(Finished(S, t, Ret(v)), v)
    ELSE Finished(S, t, Ret(v))

\* Mutant: a status that is neither 200 nor 404 raises (raise_for_status)
GetOutcomeRaiseForStatus(S, t, reply) ==
    IF "error" \in DOMAIN reply
    THEN IF reply.error = "ClientError"
         THEN Return(S, t, Absent)
         ELSE Throw(S, t, reply.error)
    ELSE IF reply.status = 200
    THEN Return(S, t, reply.body)
    ELSE IF reply.status = 404
    THEN Return(S, t, Absent)
    ELSE Throw(S, t, "ClientResponseError")

\* the body of get() once the reply is there
GetOutcome(S, t, reply) ==
    IF "error" \in DOMAIN reply
    THEN IF reply.error = "ClientError"
         THEN Return(S, t, Absent)
         ELSE Throw(S, t, reply.error)
    ELSE IF reply.status = 200
    THEN Return(S, t, reply.body)
    ELSE Return(S, t, Absent)

\* Mutant: put writes the value into the live Snapshot before it looks at
\* the answer (an optimistic update)
PutOutcomeOptimistic(S, t, reply) ==
    LET S1 == [S EXCEPT !.data = DictSet(@, S.tasks[t].path, Scalar(2))] IN
    IF "error" \in DOMAIN reply
    THEN IF reply.error = "ClientError"
         THEN Return(S1, t, FALSE)
         ELSE Throw(S1, t, reply.error)
    ELSE Return(S1, t, reply.status \in {200, 204})

\* the body of put() once the reply is there
PutOutcome(S, t, reply) ==
    IF "error" \in DOMAIN reply
    THEN IF reply.error = "ClientError"
         THEN Return(S, t, FALSE)
         ELSE Throw(S, t, reply.error)
    ELSE Return(S, t, reply.status \in {200, 204})

\* ---------------------------------------------------------------- actions
\* test_connection / get_value: await self.get(path)
CallGet(t) ==
    /\ tasks[t].pc = "idle"
    /\ \E path \in CallerPaths : Becomes(Request(State, t, "get", path))

\* An entity writes: await self.coordinator.api.put(path, value)
CallPut(t) ==
    /\ tasks[t].pc = "idle"
    /\ \E path \in CallerPaths : Becomes(Request(State, t, "put", path))

\* The token endpoint answers the POST of task t
TokenResponse(t) ==
    /\ tasks[t].pc = "posting"
    /\ \E reply \in TokenReplies : Becomes(RefreshOutcome(State, t, reply))

\* The lock is free and task t is the first waiter
LockGranted(t) ==
    /\ tasks[t].pc = "waitlock"
    /\ lock.holder = NoTask
    /\ lock.waiters # <<>>
    /\ Head(lock.waiters) = t
    /\ Becomes(SendRequest([State EXCEPT !.lock.waiters = Tail(@)], t))

\* The device answers (or fails to answer) the request of task t
DeviceResponse(t) ==
    /\ tasks[t].pc = "http"
    /\ IF tasks[t].kind = "get"
       THEN \E reply \in GetReplies :
               Becomes(GetOutcome(LockRelease(State), t, reply))
       ELSE \E reply \in PutReplies :
               Becomes(PutOutcome(LockRelease(State), t, reply))

\* Time passes
Tick ==
    /\ now < Start + MaxTicks * ClockStep
    /\ now' = now + ClockStep
    /\ UNCHANGED <<access_token, refresh_token, token_expires_at, on_token_refresh,
                   entry, tasks, lock, data, energy_counter, cycle, last_update, shown,
                   answer, snapshots, user_input>>

\* The scheduler's tick: DataUpdateCoordinator runs _async_update_data
StartCycle ==
    /\ cycle.phase = "idle"
    /\ Becomes(Request([State EXCEPT !.cycle = [IdleCycle EXCEPT !.phase = "fast", !.i = 1]],
                       PollTask, "get", POLL_PATHS[1]))

\* IVTApi.test_connection: data is not None and "value" in data; False on
\* any exception
TestConnection(result) ==
    /\ result.tag = "return"
    /\ result.val # Absent
    /\ "value" \in DOMAIN result.val

\* async_step_manual with user_input: a client is built from the form, without
\* expiry and without callback, and test_connection is awaited
SubmitManual ==
    /\ user_input # NoInput
    /\ entry = NoEntry
    /\ tasks[Reader].pc = "idle"
    /\ Becomes(Request([State EXCEPT !.access_token = user_input.access_token,
                                      !.refresh_token = user_input.refresh_token,
                                      !.token_expires_at = None,
                                      !.on_token_refresh = FALSE],
                        Reader, "get", POLL_PATHS[1]))

\* async_step_manual once test_connection has returned True: the config entry
\* is created from the form
CreateEntry ==
    /\ user_input # NoInput
    /\ entry = NoEntry
    /\ tasks[Reader].pc = "idle"
    /\ tasks[Reader].result # NoResult
    /\ TestConnection(tasks[Reader].result)
    /\ Becomes([State EXCEPT !.entry = <<user_input.access_token,
                                         user_input.refresh_token,
                                         user_input.expires_at>>])

\* Home Assistant writes the state of entity e, reading its properties
WriteState(e) ==
    /\ e \in Entities
    /\ \E path \in EntityPaths(e) :
          Becomes([State EXCEPT !.shown = EntityState(State, e, path)])

\* An entity (or the setup code) calls an accessor of the coordinator
CallAccessor(fn) ==
    /\ fn \in Accessors
    /\ \E path \in Paths \cup {UnknownPath}, key \in Keys :
          Becomes([State EXCEPT !.answer =
                      [fn |-> fn, path |-> path, key |-> key,
                       result |-> Accessor(State, fn, path, key)]])

\* ------------------------------------------------------- specifications
\* What IVTApi(...) can be constructed with
InitialExpiry == {None, Start - 60, Start + 360}

InitCommon ==
    /\ access_token = 1
    /\ now = Start
    /\ tasks = [t \in Tasks |-> IdleTask]
    /\ lock = [holder |-> NoTask, waiters |-> <<>>]
    /\ data = EmptyDict
    /\ energy_counter = 0
    /\ cycle = IdleCycle
    /\ last_update = "none"
    /\ shown = NoShown
    /\ answer = NoAnswer
    /\ snapshots = 0
    /\ user_input = NoInput

InitApi ==
    /\ InitCommon
    /\ refresh_token \in {None, 1}
    /\ token_expires_at \in InitialExpiry
    /\ on_token_refresh \in BOOLEAN
    /\ entry = <<access_token, refresh_token, token_expires_at>>

NextApi ==
    \/ CallGet(Reader)
    \/ \E t \in Writers : CallPut(t)
    \/ \E t \in {Reader} \cup Writers : TokenResponse(t)
    \/ \E t \in {Reader} \cup Writers : LockGranted(t)
    \/ \E t \in {Reader} \cup Writers : DeviceResponse(t)
    \/ Tick

SpecApi == InitApi /\ [][NextApi]_vars

\* The integration as set up by async_setup_entry: the coordinator polls and
\* entities write
Init ==
    /\ InitCommon
    /\ refresh_token = 1
    /\ token_expires_at = Start - 60
    /\ on_token_refresh = TRUE
    /\ entry = <<access_token, refresh_token, token_expires_at>>

Next ==
    \/ StartCycle
    \/ TokenResponse(PollTask)
    \/ DeviceResponse(PollTask)

Spec == Init /\ [][Next]_vars

\* The scheduler fires a tick every DEFAULT_SCAN_INTERVAL seconds and every HTTP
\* exchange ends (a reply, a transport error or the client's timeout), so the
\* poll loop never stops for good.
SpecFair == Spec /\ WF_vars(Next)

\* The coordinator polls while entities write.  The client holds a token of
\* unknown expiry and no refresh token, which _is_token_expired takes as valid,
\* so no call goes to the token endpoint.
InitWrite ==
    /\ InitCommon
    /\ refresh_token = None
    /\ token_expires_at = None
    /\ on_token_refresh = TRUE
    /\ entry = <<access_token, refresh_token, token_expires_at>>

NextWrite ==
    \/ StartCycle
    \/ CallPut(Writer)
    \/ \E t \in {PollTask, Writer} : LockGranted(t)
    \/ \E t \in {PollTask, Writer} : DeviceResponse(t)

SpecWrite == InitWrite /\ [][NextWrite]_vars

\* Callers of get and put contend for the lock.  The client has a token that
\* is not about to expire (or of unknown expiry) and no refresh token, so every
\* call goes straight to the lock.
InitLock ==
    /\ InitCommon
    /\ refresh_token = None
    /\ token_expires_at \in {None, Start + 360}
    /\ on_token_refresh \in BOOLEAN
    /\ entry = <<access_token, refresh_token, token_expires_at>>

NextLock ==
    \/ CallGet(Reader)
    \/ \E t \in Writers : CallPut(t)
    \/ \E t \in {Reader} \cup Writers : LockGranted(t)
    \/ \E t \in {Reader} \cup Writers : DeviceResponse(t)

SpecLock == InitLock /\ [][NextLock]_vars

\* Every HTTP exchange with the device ends (a reply, a transport error or the
\* 30 s timeout), and the event loop resumes the first waiter of a free lock.
SpecLockFair ==
    /\ SpecLock
    /\ \A t \in {Reader} \cup Writers :
          WF_vars(LockGranted(t)) /\ WF_vars(DeviceResponse(t))

\* Manual setup (config_flow.py): the user fills in the form, with or without
\* a refresh token and an expiry, and submits it until the connection test
\* succeeds.
InitManual ==
    /\ now = Start
    /\ tasks = [t \in Tasks |-> IdleTask]
    /\ lock = [holder |-> NoTask, waiters |-> <<>>]
    /\ data = EmptyDict
    /\ energy_counter = 0
    /\ cycle = IdleCycle
    /\ last_update = "none"
    /\ shown = NoShown
    /\ answer = NoAnswer
    /\ snapshots = 0
    /\ user_input \in [access_token : {1}, refresh_token : {None, 1},
                        expires_at : {None, Start + 360}]
    /\ access_token = user_input.access_token
    /\ refresh_token = user_input.refresh_token
    /\ token_expires_at = None
    /\ on_token_refresh = FALSE
    /\ entry = NoEntry

NextManual ==
    \/ SubmitManual
    \/ TokenResponse(Reader)
    \/ DeviceResponse(Reader)
    \/ CreateEntry
    \/ Tick

SpecManual == InitManual /\ [][NextManual]_vars

\* The entities read a Snapshot.  Bodies as the device sends them: a scalar
\* (also one of the two sentinels), a recording (a list of dicts with a
\* cumulative y, possibly empty, possibly with an element that has no y or is
\* no dict), with or without a plain value.
Y(v) == [dict |-> TRUE, y |-> v]
NoY == [dict |-> TRUE]
NoDict == [dict |-> FALSE]
Recording(seq) == [shape |-> "recording", recording |-> seq]
Values(seq) == [shape |-> "values", values |-> seq]
Ch(v) == [dict |-> TRUE, ch |-> v]
Dhw(v) == [dict |-> TRUE, dhw |-> v]
RecordingWithValue(seq, v) == [shape |-> "recording", recording |-> seq, value |-> v]
ReadEntries ==
    {Absent, [shape |-> "empty"],
     Scalar(21), Scalar(32767), Scalar(-32768),
     Recording(<<Y(1), Y(7)>>), Recording(<<Y(7), Y(1)>>), Recording(<<>>),
     Recording(<<Y(1), NoY>>),
     RecordingWithValue(<<>>, 5), RecordingWithValue(<<Y(1), Y(7)>>, 5),
     RecordingWithValue(<<Y(1), NoDict>>, 5),
     Values(<<Ch(4052), Dhw(519), Ch(3)>>), Values(<<NoDict, Dhw(519)>>),
     Values(<<>>)}
ReadSnapshots ==
    {EmptyDict, [p \in Range(POLL_PATHS) |-> Scalar(21)]}
    \cup {[q \in Paths |-> IF q = p THEN e ELSE Scalar(21)] : p \in Paths, e \in ReadEntries}

InitRead ==
    /\ access_token = 1
    /\ refresh_token = 1
    /\ token_expires_at = Start + 3600
    /\ on_token_refresh = TRUE
    /\ entry = <<access_token, refresh_token, token_expires_at>>
    /\ now = Start
    /\ tasks = [t \in Tasks |-> IdleTask]
    /\ lock = [holder |-> NoTask, waiters |-> <<>>]
    /\ data \in ReadSnapshots
    /\ energy_counter = 0
    /\ cycle = IdleCycle
    /\ last_update \in {"success", "API error"}
    /\ shown = NoShown
    /\ answer = NoAnswer
    /\ snapshots = 0
    /\ user_input = NoInput

NextRead ==
    \/ \E e \in Entities : WriteState(e)
    \/ \E fn \in Accessors : CallAccessor(fn)

SpecRead == InitRead /\ [][NextRead]_vars

\* ================================================================ claims
\* Steps of a task and of the poll cycle, as seen from outside
Calls(t) == tasks[t].pc = "idle" /\ tasks'[t] # tasks[t]
Sends(t) == tasks[t].pc # "http" /\ tasks'[t].pc = "http"
Verb(t) == IF tasks[t].kind = "get" THEN "GET" ELSE "PUT"
CycleEnds == cycle.phase # "idle" /\ cycle'.phase = "idle"
Commits == CycleEnds /\ last_update' = "success"
Fails == CycleEnds /\ last_update' # "success"
FastKeys == Range(POLL_PATHS)
SlowKeys == Range(ENERGY_PATHS)

\* ---- C1: single-flight refresh.  At no time are two refresh_token exchanges
\* (POSTs to the token endpoint) of one IVTApi instance in flight.
C1_SingleFlightRefresh ==
    Cardinality({t \in Tasks : tasks[t].pc = "posting"}) <= 1

\* ---- C2: request serialization.  At most one device GET/PUT is in flight at
\* any time, and the task whose request is in flight holds the one lock that
\* get and put share.
C2_RequestsSerialized ==
    /\ Cardinality({t \in Tasks : tasks[t].pc = "http"}) <= 1
    /\ \A t \in Tasks : tasks[t].pc = "http" => lock.holder = t
    /\ \A t \in Tasks : lock.holder = t => tasks[t].pc = "http"

C2_Witness ==
    \E r, w \in Tasks :
        /\ tasks[r].pc = "http" /\ tasks[r].kind = "get"
        /\ tasks[w].pc = "waitlock" /\ tasks[w].kind = "put"

\* ---- C8: a get/put called while the expiry is in the past and there is no
\* refresh token ends at once with IVTAuthError, having issued neither a POST
\* to the token endpoint nor a device request.
C8_ExpiredWithoutRefreshToken ==
    [][\A t \in Tasks :
          (Calls(t) /\ refresh_token = None /\ token_expires_at # None
                    /\ token_expires_at < now)
          => /\ tasks'[t].pc = "idle"
             /\ tasks'[t].result = Raise("IVTAuthError")
             /\ tasks'[t].log = <<>>
             /\ UNCHANGED <<access_token, refresh_token, token_expires_at, entry, lock>>]_vars

C8_Witness ==
    \E t \in Tasks :
        /\ refresh_token = None /\ token_expires_at # None /\ token_expires_at < now
        /\ tasks[t].pc = "idle"
        /\ tasks[t].result = Raise("IVTAuthError")
        /\ tasks[t].log = <<>>

\* ---- C9: refresh decision.  A get/put attempts a refresh exactly when the
\* expiry is known and now >= expiry - 5 minutes, or the expiry is unknown and
\* there is a refresh token; the attempt is a POST, or IVTAuthError when there
\* is no refresh token.  With unknown expiry and no refresh token no task ever
\* has a POST in flight or an IVTAuthError.
C9_NeedsRefresh ==
    \/ token_expires_at # None /\ now >= token_expires_at - 300
    \/ token_expires_at = None /\ refresh_token # None

C9_RefreshDecision ==
    /\ [][\A t \in Tasks :
            Calls(t) =>
               IF C9_NeedsRefresh
               THEN \/ tasks'[t].pc = "posting" /\ tasks'[t].log = <<"POST">>
                    \/ /\ refresh_token = None
                       /\ tasks'[t].pc = "idle"
                       /\ tasks'[t].result = Raise("IVTAuthError")
               ELSE /\ tasks'[t].pc \in {"http", "waitlock"}
                    /\ "POST" \notin Range(tasks'[t].log)]_vars
    /\ []((token_expires_at = None /\ refresh_token = None) =>
            \A t \in Tasks : /\ tasks[t].pc # "posting"
                             /\ tasks[t].result # Raise("IVTAuthError"))

C9_Witness ==
    \E t \in Tasks :
        /\ tasks[t].pc = "posting"
        /\ token_expires_at # None
        /\ now < token_expires_at
        /\ now >= token_expires_at - 300

\* ---- C10: refresh, then persist, then request.  When the token endpoint
\* answers 200 the persistence callback has received the new triple before the
\* task goes on, and a device request that follows a refresh in the same call
\* is logged after POST and PERSIST and carries the client's access token of
\* that moment.
C10_RefreshThenRequest ==
    [][\A t \in Tasks :
          /\ (tasks[t].pc = "posting" /\ tasks'[t].pc \in {"http", "waitlock"}
                 /\ on_token_refresh)
             => /\ entry' = <<access_token', refresh_token', token_expires_at'>>
                /\ SubSeq(tasks'[t].log, 1, 2) = <<"POST", "PERSIST">>
          /\ Sends(t)
             => /\ tasks'[t].hdr = access_token'
                /\ ("POST" \in Range(tasks'[t].log) /\ on_token_refresh)
                   => /\ tasks'[t].log = <<"POST", "PERSIST", Verb(t)>>
                      /\ entry'[1] = tasks'[t].hdr]_vars

C10_Witness ==
    \E t \in Tasks :
        /\ tasks[t].pc = "http"
        /\ tasks[t].log = <<"POST", "PERSIST", "GET">>
        /\ tasks[t].hdr = access_token
        /\ tasks[t].hdr # 1
        /\ entry = <<access_token, refresh_token, token_expires_at>>

\* What every reader gets from the Snapshots d and e is the same
SameReads(d, e) ==
    \A p \in Paths : get_value(d, p) = get_value(e, p) /\ get_entry(d, p) = get_entry(e, p)

\* ---- C3: atomic snapshot commit.  As long as a poll cycle goes on, every
\* reader gets what it got before the cycle; the live Snapshot changes only in
\* the step that ends a cycle with success, which comes after the last Fast
\* GET and, when the Slow tier is due, after the last Slow GET.
C3_AtomicSnapshotCommit ==
    [][/\ ~CycleEnds => SameReads(data, data')
       /\ data' # data =>
             /\ Commits
             /\ FastKeys \subseteq DOMAIN data'
             /\ \/ cycle.phase = "slow" /\ cycle.i = NumSlow
                \/ cycle.phase = "fast" /\ cycle.i = NumFast /\ ~Due(energy_counter + 1)]_vars

C3_Witness ==
    /\ cycle.phase = "slow"
    /\ tasks[PollTask].pc = "http"
    /\ DOMAIN cycle.results # {}
    /\ DOMAIN data # {}
    /\ \E p \in FastKeys : cycle.data[p] # data[p]

\* ---- C4: a failed cycle keeps the old Snapshot.  A cycle that ends with an
\* exception ends as UpdateFailed, commits nothing (every reader gets what it
\* got before), and leaves the coordinator ready for a full cycle, which
\* starts again at the first Fast path.
C4_FailedCycleKeepsSnapshot ==
    [][/\ Fails =>
             /\ data' = data
             /\ SameReads(data, data')
             /\ last_update' \in {"Authentication error", "API error", "Unexpected error"}
             /\ cycle' = IdleCycle
             /\ tasks'[PollTask].pc = "idle"
             /\ lock'.holder # PollTask
       /\ (cycle.phase = "idle" /\ cycle'.phase # "idle") =>
             /\ cycle' = [phase |-> "fast", i |-> 1, results |-> <<>>, data |-> <<>>]
             /\ tasks'[PollTask].path = POLL_PATHS[1]]_vars

C4_Witness ==
    /\ cycle.phase = "idle"
    /\ last_update = "Authentication error"
    /\ \E p \in FastKeys : p \in DOMAIN data /\ data[p] # Absent
    /\ SlowKeys \subseteq DOMAIN data

C6_CarryForward ==
    /\ [][(cycle.phase = "fast" /\ Commits) =>
            \A p \in SlowKeys \cap DOMAIN data :
               p \in DOMAIN data' /\ data'[p] = data[p]]_vars
    /\ [](cycle.phase = "fast" => tasks[PollTask].path \in FastKeys)

C6_Witness ==
    /\ cycle.phase = "idle"
    /\ last_update = "success"
    /\ energy_counter \in 1..4
    /\ \E p, q \in SlowKeys : /\ p \in DOMAIN data /\ q \in DOMAIN data
                              /\ data[p] = Absent /\ data[q] = Scalar(2)

Credential == <<access_token, refresh_token, token_expires_at>>

\* ---- C11: credential update on a successful refresh.  The access token
\* becomes the returned one, the refresh token the returned one if there is
\* one and else stays, the expiry becomes now + expires_in (3600 when it is
\* missing); the three fields change in that one step and in no other, so no
\* task sees a mix of old and new fields.
C11_CredentialUpdate ==
    /\ [](\A t \in Tasks : tasks[t].pc = "posting" =>
            \A reply \in {r \in TokenReplies : "status" \in DOMAIN r /\ r.status = 200} :
               LET S == RefreshOutcome(State, t, reply) IN
               /\ S.access_token = reply.access_token
               /\ S.refresh_token = IF reply.refresh_token = None
                                    THEN refresh_token ELSE reply.refresh_token
               /\ S.token_expires_at = now + (IF reply.expires_in = None
                                              THEN 3600 ELSE reply.expires_in))
    /\ [][Credential' # Credential =>
            /\ \E t \in Tasks : tasks[t].pc = "posting" /\ tasks'[t].pc \in {"http", "waitlock"}
            /\ \E reply \in TokenReplies :
                  /\ "status" \in DOMAIN reply /\ reply.status = 200
                  /\ access_token' = reply.access_token
                  /\ refresh_token' = IF reply.refresh_token = None
                                      THEN refresh_token ELSE reply.refresh_token
                  /\ token_expires_at' = now + (IF reply.expires_in = None
                                                THEN 3600 ELSE reply.expires_in)]_vars

C11_Witness ==
    /\ access_token = 3
    /\ refresh_token = 1
    /\ token_expires_at = now + 3600
    /\ \E t \in Tasks : tasks[t].pc = "http" /\ tasks[t].sent = 1

\* ---- C12: failed refresh.  A non-200 answer of the token endpoint raises
\* IVTAuthError and a transport failure IVTConnectionError; the error ends the
\* get/put, which has issued one POST and nothing else (no device request, no
\* callback, no second POST) and leaves credential and config entry as they
\* were.
C12_FailedRefresh ==
    /\ [](\A t \in Tasks : tasks[t].pc = "posting" =>
            \A reply \in {r \in TokenReplies : "error" \in DOMAIN r \/ r.status # 200} :
               LET S == RefreshOutcome(State, t, reply) IN
               /\ S.tasks[t].pc = "idle"
               /\ S.tasks[t].result = Raise(IF "error" \in DOMAIN reply
                                            THEN "IVTConnectionError" ELSE "IVTAuthError")
               /\ S.tasks[t].log = <<"POST">>
               /\ Triple(S) = Credential /\ S.entry = entry /\ S.lock = lock)
    /\ [][\A t \in Tasks :
            (tasks[t].pc = "posting" /\ tasks'[t].pc = "idle") =>
               /\ tasks'[t].result \in {Raise("IVTAuthError"), Raise("IVTConnectionError")}
               /\ tasks'[t].log = <<"POST">>
               /\ UNCHANGED <<access_token, refresh_token, token_expires_at, entry, lock>>]_vars
    /\ [](\A t \in Tasks :
            (tasks[t].pc = "idle" /\ tasks[t].result \in {Raise("IVTAuthError"),
                                                          Raise("IVTConnectionError")})
            => tasks[t].log \in {<<>>, <<"POST">>})

C12_Witness ==
    \E t, u \in Tasks :
        /\ tasks[t].pc = "idle" /\ tasks[t].result = Raise("IVTAuthError")
        /\ tasks[t].log = <<"POST">>
        /\ tasks[u].pc = "idle" /\ tasks[u].result = Raise("IVTConnectionError")
        /\ tasks[u].log = <<"POST">>
        /\ entry = Credential

\* ---- C13: what get returns.  Once the request is sent, get returns the
\* parsed body on status 200 and None on 404, on any other status and on a
\* transport failure (aiohttp.ClientError); it raises in none of these cases.
C13_GetOutcome ==
    /\ [](\A t \in Tasks : (tasks[t].pc = "http" /\ tasks[t].kind = "get") =>
            \A reply \in {r \in GetReplies : "error" \in DOMAIN r => r.error = "ClientError"} :
               LET S == GetOutcome(LockRelease(State), t, reply) IN
               /\ S.tasks[t].pc = "idle"
               /\ S.tasks[t].result =
                     IF "status" \in DOMAIN reply /\ reply.status = 200
                     THEN Ret(reply.body) ELSE Ret(Absent))
    /\ [][\A t \in Tasks :
            (tasks[t].pc = "http" /\ tasks[t].kind = "get" /\ tasks'[t].pc # "http") =>
               /\ tasks'[t].pc = "idle"
               /\ \/ tasks'[t].result \in {Ret(b) : b \in Bodies \cup {Absent}}
                  \/ tasks'[t].result = Raise("TimeoutError")]_vars

C13_Witness ==
    \E t \in Tasks :
        /\ tasks[t].pc = "idle"
        /\ tasks[t].log = <<"POST", "PERSIST", "GET">>
        /\ tasks[t].result = Ret(Absent)

\* The state once the device request of task t has ended with reply
Outcome(t, reply) ==
    IF tasks[t].kind = "get"
    THEN GetOutcome(LockRelease(State), t, reply)
    ELSE PutOutcome(LockRelease(State), t, reply)

\* ---- C14: a timeout equals a transport failure.  Whatever request is in
\* flight, its running into the 30 s timeout leaves the program as a transport
\* failure would: get returns None, put returns False, and a poll cycle goes
\* on with the next path.
C14_TimeoutAsTransportFailure ==
    \A t \in Tasks :
        tasks[t].pc = "http" =>
            Outcome(t, [error |-> "TimeoutError"]) = Outcome(t, [error |-> "ClientError"])

\* ---- C15: what put returns, and its frame.  put returns True exactly on
\* status 200 or 204 and False on any other status and on a transport failure
\* (aiohttp.ClientError); no step of a put changes the live Snapshot, so every
\* accessor returns after the put what it returned before.
C15_PutOutcomeAndFrame ==
    /\ [](\A t \in Tasks : (tasks[t].pc = "http" /\ tasks[t].kind = "put") =>
            \A reply \in {r \in PutReplies : "error" \in DOMAIN r => r.error = "ClientError"} :
               LET S == PutOutcome(LockRelease(State), t, reply) IN
               /\ S.tasks[t].pc = "idle"
               /\ S.tasks[t].result =
                     Ret("status" \in DOMAIN reply /\ reply.status \in {200, 204})
               /\ S.data = data)
    /\ [][\A t \in Writers :
            tasks'[t] # tasks[t] =>
               /\ data' = data
               /\ SameReads(data, data')
               /\ (tasks[t].pc = "http" /\ tasks'[t].pc # "http") =>
                     /\ tasks'[t].pc = "idle"
                     /\ tasks'[t].result \in {Ret(TRUE), Ret(FALSE), Raise("TimeoutError")}]_vars

C15_Witness ==
    \E t \in Writers :
        /\ tasks[t].pc = "idle"
        /\ tasks[t].log = <<"PUT">>
        /\ tasks[t].result = Ret(FALSE)
        /\ cycle.phase = "fast"
        /\ get_value(data, POLL_PATHS[1]) = {1}

\* The paths of the first n entries of the list paths
Prefix(paths, n) == {paths[k] : k \in 1..n}

\* What the running or just finished cycle of state S holds for the path p
Stored(S, p) ==
    LET held == IF S.cycle.phase = "idle" THEN S.data
                ELSE DictUpdate(S.cycle.data, S.cycle.results)
    IN  IF p \in DOMAIN held THEN held[p] ELSE [shape |-> "no key"]

\* ---- C16: get_many.  During a cycle the one GET of the poll task is for the
\* path at the current position of the list, the results so far have exactly
\* the paths before it as keys (each GET starts after the one before it has
\* returned, in list order), and the position moves one path at a time; a GET
\* that ends with 404, another status or a transport failure stores None under
\* its path; the Slow list is begun only with a result for every Fast path,
\* and what a cycle commits has a key for every path it requested.
C16_GetManyInOrder ==
    /\ [](cycle.phase # "idle" =>
            /\ cycle.i \in 1..Len(CyclePaths(cycle))
            /\ tasks[PollTask].pc \in {"posting", "waitlock", "http"}
            /\ tasks[PollTask].kind = "get"
            /\ tasks[PollTask].path = CyclePaths(cycle)[cycle.i]
            /\ DOMAIN cycle.results = Prefix(CyclePaths(cycle), cycle.i - 1)
            /\ cycle.phase = "slow" => DOMAIN cycle.data = FastKeys)
    /\ [](tasks[PollTask].pc = "http" =>
            \A reply \in {[status |-> 404], [status |-> 500], [error |-> "ClientError"]} :
               Stored(GetOutcome(LockRelease(State), PollTask, reply),
                      tasks[PollTask].path) = Absent)
    /\ [][/\ (cycle'.phase # "idle" /\ cycle' # cycle) =>
               \/ cycle.phase = "idle" /\ cycle'.phase = "fast" /\ cycle'.i = 1
               \/ cycle'.phase = cycle.phase /\ cycle'.i = cycle.i + 1
               \/ /\ cycle.phase = "fast" /\ cycle'.phase = "slow" /\ cycle'.i = 1
                  /\ cycle.i = NumFast
          /\ Commits =>
               /\ cycle.i = Len(CyclePaths(cycle))
               /\ FastKeys \subseteq DOMAIN data'
               /\ cycle.phase = "slow" => SlowKeys \subseteq DOMAIN data']_vars

C16_Witness ==
    /\ cycle.phase = "slow"
    /\ cycle.i = NumSlow
    /\ tasks[PollTask].pc = "waitlock"
    /\ cycle.results[ENERGY_PATHS[1]] = Absent
    /\ cycle.data[POLL_PATHS[1]] = Absent

\* ---- C17: partial failure still commits.  A GET of the poll cycle that
\* ends without an exception (a body, 404, another status, a transport
\* failure) never fails the cycle, which goes on or commits; the committed
\* Snapshot maps every Fast path to what this cycle fetched for it, None where
\* the GET gave None, whatever the previous Snapshot held.
C17_PartialFailureCommits ==
    /\ [](tasks[PollTask].pc = "http" =>
            \A reply \in {r \in GetReplies : "error" \in DOMAIN r => r.error = "ClientError"} :
               LET S == GetOutcome(LockRelease(State), PollTask, reply) IN
               /\ S.cycle.phase = "idle" => S.last_update = "success"
               /\ Stored(S, tasks[PollTask].path) =
                     IF "status" \in DOMAIN reply /\ reply.status = 200
                     THEN reply.body ELSE Absent)
    /\ [][Commits =>
            \A p \in FastKeys :
               /\ p \in DOMAIN data'
               /\ p \in DOMAIN cycle.results => data'[p] = cycle.results[p]
               /\ p \in DOMAIN cycle.data => data'[p] = cycle.data[p]
               /\ data'[p] \in Bodies \cup {Absent}]_vars

C17_Witness ==
    /\ cycle.phase = "idle"
    /\ last_update = "success"
    /\ energy_counter = 1
    /\ \A p \in FastKeys : p \in DOMAIN data /\ data[p] = Absent
    /\ \E q \in SlowKeys : q \in DOMAIN data /\ data[q] \in Bodies

\* The reading of shown.path in the live Snapshot that the scalar accessor gives
Reading == get_value(data, shown.path)

\* ---- C19: sentinel normalization.  Whichever entity shows a scalar reading
\* (sensor, climate, water heater, number), a reading of 32767 or -32768 is
\* shown as unavailable (no value, and the sensor's availability check fails)
\* and every other reading is shown unchanged.
C19_SentinelNormalized ==
    shown.entity \in {"sensor", "climate", "water_heater", "number"} =>
        IF Reading \in {{32767}, {-32768}}
        THEN /\ shown.value = {}
             /\ shown.entity = "sensor" => ~shown.available
        ELSE shown.value = Reading

\* ---- C20: the time-series accessor.  For an entry with a non-empty
\* recording the energy sensor shows the y of its last element; for an entry
\* without one it shows the entry's plain value if there is one; otherwise,
\* and when the path is no key of the Snapshot, it shows nothing.  A scalar
\* entry {value: v} read through get_value gives v.
C20_TimeSeriesAccessor ==
    LET e == IF shown.path \in DOMAIN data THEN data[shown.path] ELSE Absent IN
    /\ shown.entity = "energy" =>
          IF e # Absent /\ "recording" \in DOMAIN e /\ e.recording # <<>>
          THEN LET last == e.recording[Len(e.recording)] IN
               last.dict => shown.value = IF "y" \in DOMAIN last THEN {last.y} ELSE {}
          ELSE IF e # Absent /\ "value" \in DOMAIN e
          THEN shown.value = {e.value}
          ELSE shown.value = {}
    /\ shown.entity = "number" =>
          \A v \in {21, 32767, -32768} : e = Scalar(v) => shown.value = {v}

C20_Witness ==
    /\ shown.entity = "energy"
    /\ shown.path \in DOMAIN data
    /\ data[shown.path] = Recording(<<Y(1), Y(7)>>)
    /\ shown.value = {7}

\* The entry the live Snapshot holds under the path of the last accessor call
Held == IF answer.path \in DOMAIN data THEN data[answer.path] ELSE Absent

\* The places of the held values list whose element is a dict with the key
Matches ==
    IF Held # Absent /\ "values" \in DOMAIN Held
    THEN {i \in 1..Len(Held.values) :
             Held.values[i].dict /\ answer.key \in DOMAIN Held.values[i]}
    ELSE {}

\* ---- C21: accessors never raise.  Whatever the coordinator holds (no
\* Snapshot, the Snapshot kept after a failed cycle, entries absent, empty,
\* scalar, tagged-list or recording shaped) and whatever path and key are
\* asked for, each of the four accessors returns; get_emon_value returns the
\* value under the key in the first element of the list that has the key, and
\* None when the path or the key is missing.
C21_AccessorsNeverRaise ==
    /\ answer.fn \in Accessors => answer.result.tag = "return"
    /\ answer.fn = "get_emon_value" =>
          answer.result =
             IF Matches = {}
             THEN Ret({})
             ELSE Ret({Held.values[CHOOSE i \in Matches : \A j \in Matches : i <= j][answer.key]})
    /\ answer.fn = "get_entry" => answer.result = Ret(Held)
    /\ answer.fn = "get_value" =>
          answer.result = Ret(IF Held # Absent /\ "value" \in DOMAIN Held
                              THEN {Held.value} ELSE {})

C21_Witness ==
    /\ answer.fn = "get_emon_value"
    /\ last_update = "API error"
    /\ Held = Values(<<Ch(4052), Dhw(519), Ch(3)>>)
    /\ answer.key = "ch"
    /\ answer.result = Ret({4052})

\* ---- C22 as stated: a client without a refresh token and with a known
\* expiry never needs a refresh: whatever the expiry is, the token check of a
\* get/put neither starts a refresh nor fails, and the call goes on to the
\* device request.
C22_ExpiryIgnoredWithoutRefreshToken ==
    [][\A t \in Tasks :
          (Calls(t) /\ refresh_token = None /\ token_expires_at # None)
          => /\ tasks'[t].pc \in {"http", "waitlock"}
             /\ tasks'[t].log \in {<<>>, <<"GET">>, <<"PUT">>}]_vars

\* ---- C22 amended: without a refresh token a known expiry is not ignored.
\* While now is before expiry - 5 minutes the token check neither starts a
\* refresh nor fails and the call goes on to the device request; from then on
\* every get/put ends at once with IVTAuthError and no request.  Only with no
\* expiry and no refresh token does the check always pass.  In no case is a
\* POST sent without a refresh token.
C22_ExpiryHonoredWithoutRefreshToken ==
    /\ [][\A t \in Tasks :
            (Calls(t) /\ refresh_token = None)
            => IF token_expires_at = None \/ now < token_expires_at - 300
               THEN /\ tasks'[t].pc \in {"http", "waitlock"}
                    /\ tasks'[t].log \in {<<>>, <<"GET">>, <<"PUT">>}
               ELSE /\ tasks'[t].pc = "idle"
                    /\ tasks'[t].result = Raise("IVTAuthError")
                    /\ tasks'[t].log = <<>>]_vars
    /\ [](refresh_token = None => \A t \in Tasks : tasks[t].pc # "posting")

C22_Witness ==
    \E t, u \in Tasks :
        /\ refresh_token = None
        /\ token_expires_at # None
        /\ now >= token_expires_at - 300
        /\ now < token_expires_at
        /\ tasks[t].pc = "idle" /\ tasks[t].log = <<"GET">> /\ tasks[t].result = Ret(Absent)
        /\ tasks[u].pc = "idle" /\ tasks[u].log = <<>> /\ tasks[u].result = Raise("IVTAuthError")

\* ---- C23: the cadence counter is reset to 0 only by a cycle whose Slow
\* fetch succeeded; a due cycle whose Slow fetch raises leaves the counter at
\* its threshold, so that the cycle of the next tick is due again.
C23_ResetOnlyOnSlowSuccess ==
    [][(cycle.phase = "slow" /\ Fails) =>
          /\ energy_counter' # 0
          /\ Due(energy_counter' + 1)]_vars

C25_SlowValueNeverLost ==
    [][\A p \in SlowKeys \cap DOMAIN data :
          data[p] # Absent => p \in DOMAIN data' /\ data'[p] # Absent]_vars

\* ---- C25 amended: a due cycle that commits maps every Slow path to what
\* this cycle fetched for it, None where the GET gave None (404, another
\* status, a transport failure), whatever the previous Snapshot held; the
\* cycles that follow without the Slow tier being due carry that entry
\* forward, None included.
C25_SlowEntryReplaced ==
    /\ [](tasks[PollTask].pc = "http" /\ cycle.phase = "slow" =>
            \A reply \in {[status |-> 404], [status |-> 500], [error |-> "ClientError"]} :
               LET S == GetOutcome(LockRelease(State), PollTask, reply) IN
               /\ Stored(S, tasks[PollTask].path) = Absent
               /\ S.cycle.phase = "idle" =>
                     /\ S.last_update = "success"
                     /\ \A p \in DOMAIN cycle.results : S.data[p] = cycle.results[p])
    /\ [][/\ (cycle.phase = "slow" /\ Commits) =>
                \A p \in SlowKeys :
                   /\ p \in DOMAIN data'
                   /\ p \in DOMAIN cycle.results => data'[p] = cycle.results[p]
          /\ (cycle.phase = "fast" /\ Commits) =>
                \A p \in SlowKeys \cap DOMAIN data :
                   p \in DOMAIN data' /\ data'[p] = data[p]]_vars

C25_Witness ==
    /\ cycle.phase = "slow"
    /\ cycle.i = NumSlow
    /\ tasks[PollTask].pc = "http"
    /\ SlowKeys \subseteq DOMAIN data
    /\ \A p \in SlowKeys : data[p] \in Bodies
    /\ cycle.results[ENERGY_PATHS[1]] = Absent

\* ---- C26: the key set of a Snapshot.  Every committed Snapshot has all
\* Fast paths as keys and either none or all of the Slow paths; the first four
\* Snapshots of a fresh coordinator have no Slow path, the fifth and every
\* later one has all of them.
C26_SnapshotKeySet ==
    snapshots > 0 =>
        /\ FastKeys \subseteq DOMAIN data
        /\ SlowKeys \cap DOMAIN data \in {{}, SlowKeys}
        /\ snapshots \in 1..4 => SlowKeys \cap DOMAIN data = {}
        /\ snapshots >= 5 => SlowKeys \subseteq DOMAIN data

\* ---- C27: the mutex is released on every exit of get and put.  Whatever
\* ends the request (200, 404, another status, a transport failure, the
\* timeout) the lock is free afterwards; it is never held by a task that has
\* no request in flight; and, as every HTTP exchange ends, every call waiting
\* for the lock gets it and then ends.
C27_MutexReleased ==
    /\ [](\A t \in Tasks : tasks[t].pc = "http" =>
            \A reply \in (IF tasks[t].kind = "get" THEN GetReplies ELSE PutReplies) :
               Outcome(t, reply).lock.holder = NoTask)
    /\ [](lock.holder # NoTask => tasks[lock.holder].pc = "http")
    /\ [][\A t \in Tasks :
            (tasks[t].pc = "http" /\ tasks'[t].pc # "http") =>
               tasks'[t].pc = "idle" /\ lock'.holder # t]_vars
    /\ \A t \in Tasks :
          /\ tasks[t].pc = "waitlock" ~> tasks[t].pc = "http"
          /\ tasks[t].pc = "http" ~> tasks[t].pc = "idle"

C27_Witness ==
    \E t, u \in Tasks :
        /\ tasks[t].pc = "idle"
        /\ tasks[t].log = <<"GET">>
        /\ tasks[t].result = Raise("TimeoutError")
        /\ tasks[u].pc = "http"
        /\ tasks[u].log = <<"PUT">>
        /\ lock = [holder |-> u, waiters |-> <<>>]

\* ---- C28: the persisted credential tracks the live one.  With a
\* persistence callback, whenever no refresh is in progress the triple last
\* handed to the callback is the client's credential; and the token endpoint
\* is never given a refresh token that an exchange has already replaced: the
\* refresh token of every exchange in flight is the client's current one.
C28_PersistedTracksLive ==
    /\ (on_token_refresh /\ \A t \in Tasks : tasks[t].pc # "posting") =>
          entry = Credential
    /\ \A t \in Tasks : tasks[t].pc = "posting" => tasks[t].sent = refresh_token

\* ---- C29: every successful refresh reaches persistence.  After manual
\* setup (a client built from the form without expiry and without callback,
\* then test_connection) the access token and the refresh token written to
\* the config entry are those of the client, whose refresh during
\* test_connection has thus been persisted.
C29_RefreshReachesPersistence ==
    entry # NoEntry =>
        /\ entry[1] = access_token
        /\ entry[2] = refresh_token

\* ---- C30: value and availability agree.  While the coordinator is healthy,
\* a sensor that shows a value (not None, not a sentinel) is available; so is
\* an energy sensor that shows the last y of a recording without a plain value.
C30_ValueImpliesAvailable ==
    (/\ shown.entity \in {"sensor", "energy"}
     /\ last_update = "success"
     /\ shown.value # {}
     /\ shown.value \cap Sentinels = {})
    => shown.available

====
